---------------------------- MODULE Spec2Model ----------------------------
(***************************************************************************)
(* A model of the SQL-DDL keyword scanners of dxc-scd-dse:                 *)
(*   npi_report.py, analysis-dean/networks.py, analysis-dean/columns.py,   *)
(*   analysis-dean/tables.py (two script blocks in one file) and           *)
(*   analysis-dean/schema-analyzer.py.                                     *)
(*                                                                         *)
(* Text is modelled at the level of characters: a text is a sequence of    *)
(* one-character strings, and every regular expression of the source is    *)
(* written as a sequence of regex nodes that a backtracking matcher with   *)
(* Python's priorities (leftmost match, greedy/lazy repetition, ordered    *)
(* alternation) interprets.                                                *)
(***************************************************************************)
EXTENDS Integers, Sequences, FiniteSets, TLC

(***************************************************************************)
(* Characters                                                              *)
(***************************************************************************)
LowerSeq == <<"a","b","c","d","e","f","g","h","i","j","k","l","m","n","o","p","q","r","s","t","u","v","w","x","y","z">>

UpperSeq == <<"A","B","C","D","E","F","G","H","I","J","K","L","M","N","O","P","Q","R","S","T","U","V","W","X","Y","Z">>

DigitSeq == <<"0","1","2","3","4","5","6","7","8","9">>

Range(f) == {f[x] : x \in DOMAIN f}

Min(S) == CHOOSE x \in S : \A y \in S : x <= y

\* str.lower() / re.IGNORECASE on one character
ToLower == [c \in Range(UpperSeq) |-> LowerSeq[CHOOSE k \in 1..26 : UpperSeq[k] = c]]

Fold(c) == IF c \in DOMAIN ToLower THEN ToLower[c] ELSE c

Lower(s) == [j \in 1..Len(s) |-> Fold(s[j])]

\* \s
IsSpace(c) == c \in {" ", "\n", "\t", "\r"}

\* \w
IsWord(c) == c \in Range(LowerSeq) \cup Range(UpperSeq) \cup Range(DigitSeq) \cup {"_"}

\* The grave accent (U+0060), which a TLA+ string cannot hold, as a character of its own
Grave == "<grave>"

\* The character classes of the source's patterns:
\*   "s" \s   "S" \S   "w" \w   "any" . (re.DOTALL)   "nbr" [^\]]   "nrp" [^\)]
\*   "qt" the class of the grave accent and the apostrophe
InClass(k, c) ==
    CASE k = "s"   -> IsSpace(c)
      [] k = "S"   -> ~IsSpace(c)
      [] k = "w"   -> IsWord(c)
      [] k = "any" -> TRUE
      [] k = "nbr" -> c # "]"
      [] k = "nrp" -> c # ")"
      [] k = "qt"  -> c \in {Grave, "'"}

(***************************************************************************)
(* Regex nodes                                                             *)
(***************************************************************************)
\* A literal string, compared case-insensitively (every pattern of the source is compiled or
\* searched with re.IGNORECASE); w is written in lower case.
Str(w) == [t |-> "str", w |-> w]

\* One literal character
Lit(c) == [t |-> "str", w |-> <<c>>]

\* k{min,max}, greedy (g) or lazy; a negative max stands for no upper limit
Rep(k, min, max, g) == [t |-> "rep", k |-> k, min |-> min, max |-> max, g |-> g]

Plus(k) == Rep(k, 1, -1, TRUE)

Star(k) == Rep(k, 0, -1, TRUE)

LazyStar(k) == Rep(k, 0, -1, FALSE)

OptC(k) == Rep(k, 0, 1, TRUE)

\* (?:x1|x2|...) : each xs[j] is a sequence of nodes
Alt(xs) == [t |-> "alt", xs |-> xs]

\* (?:x)? , greedy
Opt(x) == Alt(<<x, <<>>>>)

\* the opening and the closing parenthesis of capture group n
Open(n) == [t |-> "open", n |-> n]

Close(n) == [t |-> "close", n |-> n]

\* \b
WordB == [t |-> "wb"]

\* (?:w1|w2|...) over literal words
Words(ws) == Alt([j \in 1..Len(ws) |-> <<Str(ws[j])>>])

(***************************************************************************)
(* The matcher                                                             *)
(***************************************************************************)
Fail == [ok |-> FALSE, b |-> 0, e |-> 0, caps |-> <<>>]

\* Of a set of <<priority, result>> pairs, the successful result of the least (greatest, if
\* last) priority: the alternative a backtracking matcher reaches first among those that
\* succeed; Fail if none does
Pick(tried, last) ==
    CHOOSE res \in
        {IF good = {} THEN Fail
         ELSE (CHOOSE p \in good : \A q \in good : IF last THEN p[1] >= q[1] ELSE p[1] <= q[1])[2]
           : good \in {{p \in tried : p[2].ok}}} : TRUE

\* the length of the longest run of class-k characters of s from position i, at most max
RunLen(s, i, k, max) ==
    LET bad == {j \in i..Len(s) : ~InClass(k, s[j])}
        end == IF bad = {} THEN Len(s) + 1 ELSE Min(bad)
    IN  IF max >= 0 /\ end - i > max THEN max ELSE end - i

\* \b at position i: between s[i-1] and s[i]
AtBoundary(s, i) ==
    LET before == i > 1 /\ i - 1 <= Len(s) /\ IsWord(s[i - 1])
        after  == i >= 1 /\ i <= Len(s) /\ IsWord(s[i])
    IN  before # after

RECURSIVE MatchAt(_, _, _, _)
\* The match of the node sequence K against s from position i that a backtracking
\* matcher finds first, or Fail. caps[n] = <<start, end>> of capture group n.
\* (Every alternative is tried and the one of highest priority that succeeds is taken.)
MatchAt(s, K, i, caps) ==
    IF Len(K) = 0 THEN [ok |-> TRUE, b |-> i, e |-> i, caps |-> caps]
    ELSE LET h == Head(K)
             r == Tail(K)
         IN CASE h.t = "str" ->
                   IF /\ i + Len(h.w) - 1 <= Len(s)
                      /\ \A j \in 1..Len(h.w) : Fold(s[i + j - 1]) = Fold(h.w[j])
                   THEN MatchAt(s, r, i + Len(h.w), caps)
                   ELSE Fail
              [] h.t = "rep" ->
                   Pick({<<l, MatchAt(s, r, i + l, caps)>> :
                            l \in h.min..RunLen(s, i, h.k, h.max)}, h.g)
              [] h.t = "alt" ->
                   Pick({<<j, MatchAt(s, h.xs[j] \o r, i, caps)>> : j \in 1..Len(h.xs)}, FALSE)
              [] h.t = "open" ->
                   MatchAt(s, r, i, [caps EXCEPT ![h.n] = <<i, i>>])
              [] h.t = "close" ->
                   MatchAt(s, r, i, [caps EXCEPT ![h.n] = <<@[1], i>>])
              [] h.t = "wb" ->
                   IF AtBoundary(s, i) THEN MatchAt(s, r, i, caps) ELSE Fail

NoCaps(n) == [j \in 1..n |-> <<0, 0>>]

\* re.search / one step of finditer: the leftmost match of K in s starting at or after from
Search(s, K, ng, from) ==
    Pick({<<i, [MatchAt(s, K, i, NoCaps(ng)) EXCEPT !.b = i]>> : i \in from..(Len(s) + 1)}, FALSE)

\* Python's None: no sequence of characters
None == <<"None">>

\* match.group(n), n >= 1: None for a group that took no part in the match
Group(s, m, n) ==
    IF m.caps[n][1] = 0 THEN None ELSE SubSeq(s, m.caps[n][1], m.caps[n][2] - 1)

\* match.group(0)
Group0(s, m) == SubSeq(s, m.b, m.e - 1)

RECURSIVE FindFrom(_, _, _, _)
FindFrom(s, K, ng, m) ==
    IF ~m.ok THEN <<>>
    ELSE <<m>> \o (CHOOSE rest \in {FindFrom(s, K, ng, n) :
                       n \in {Search(s, K, ng, IF m.e = m.b THEN m.e + 1 ELSE m.e)}} : TRUE)

\* re.finditer: the successive non-overlapping matches, left to right
FindIter(s, K, ng, from) ==
    CHOOSE ms \in {FindFrom(s, K, ng, m) : m \in {Search(s, K, ng, from)}} : TRUE

(***************************************************************************)
(* The patterns of the source                                              *)
(***************************************************************************)
w_use == <<"u","s","e">>

w_create == <<"c","r","e","a","t","e">>

w_table == <<"t","a","b","l","e">>

w_view == <<"v","i","e","w">>

w_on == <<"o","n">>

w_primary == <<"p","r","i","m","a","r","y">>

w_go == <<"g","o">>

w_npi == <<"n","p","i">>

w_dentist == <<"d","e","n","t","i","s","t">>

w_hygienist == <<"h","y","g","i","e","n","i","s","t">>

w_provider == <<"p","r","o","v","i","d","e","r">>

w_dental_network_provider == <<"d","e","n","t","a","l"," ","n","e","t","w","o","r","k"," ","p","r","o","v","i","d","e","r">>

w_network_provider == <<"n","e","t","w","o","r","k"," ","p","r","o","v","i","d","e","r">>

w_dental_network == <<"d","e","n","t","a","l"," ","n","e","t","w","o","r","k">>

w_network == <<"n","e","t","w","o","r","k">>

w_dental_service_organization == <<"d","e","n","t","a","l"," ","s","e","r","v","i","c","e"," ","o","r","g","a","n","i","z","a","t","i","o","n">>

w_dental_support_organization == <<"d","e","n","t","a","l"," ","s","u","p","p","o","r","t"," ","o","r","g","a","n","i","z","a","t","i","o","n">>

w_service_org == <<"s","e","r","v","i","c","e"," ","o","r","g">>

w_support_organization == <<"s","u","p","p","o","r","t"," ","o","r","g","a","n","i","z","a","t","i","o","n">>

w_support_org == <<"s","u","p","p","o","r","t"," ","o","r","g">>

w_dso == <<"d","s","o">>

w_service == <<"s","e","r","v","i","c","e">>

w_support == <<"s","u","p","p","o","r","t">>

Unknown == <<"U","n","k","n","o","w","n">>

Modes == {"dentists", "networks", "dsos"}

\* the alternatives of each mode with the single words listed before the phrases
KeywordsWordsFirst(mode) ==
    CASE mode = "dentists" -> <<w_npi, w_dentist, w_hygienist, w_provider>>
      [] mode = "networks" -> <<w_provider, w_network, w_dental_network, w_network_provider,
                                w_dental_network_provider>>
      [] mode = "dsos"     -> <<w_dso, w_service, w_support, w_service_org, w_support_org,
                                w_support_organization, w_dental_service_organization,
                                w_dental_support_organization>>

\* The alternatives of each mode's keyword pattern, in the order of the source
\* (NPI|dentist|hygienist|provider), (dental network provider|...), (dental service organization|...)
Keywords(mode) ==
    CASE mode = "dentists" -> <<w_npi, w_dentist, w_hygienist, w_provider>>
      [] mode = "networks" -> <<w_dental_network_provider, w_network_provider, w_dental_network,
                                w_provider, w_network>>
      [] mode = "dsos"     -> <<w_dental_service_organization, w_dental_support_organization,
                                w_service_org, w_support_organization, w_support_org, w_dso,
                                w_service, w_support>>

\* r"USE\s+\[(\w+)\]"
use_regex == <<Str(w_use), Plus("s"), Lit("["), Open(1), Plus("w"), Close(1), Lit("]")>>

\* db_match = re.search(use_regex, content); database = db_match.group(1) if db_match else "Unknown"
\* the name of the last USE statement instead of the first
LastDatabase(content) ==
    CHOOSE db \in {IF Len(ms) = 0 THEN Unknown ELSE Group(content, ms[Len(ms)], 1)
                     : ms \in {FindIter(content, use_regex, 1, 1)}} : TRUE

\* the database left None, instead of "Unknown", for a text without a USE statement
DatabaseOrNone(content) ==
    LET db_match == Search(content, use_regex, 1, 1)
    IN  IF db_match.ok THEN Group(content, db_match, 1) ELSE None

Database(content) ==
    LET db_match == Search(content, use_regex, 1, 1)
    IN  IF db_match.ok THEN Group(content, db_match, 1) ELSE Unknown

\* r"CREATE\s+\S+\s+[q]?(\S+)[q]?\s*\((.*)\)\s*.*GO", [q] the class "qt"   (tables.py, networks.py)
table_regex_greedy ==
    <<Str(w_create), Plus("s"), Plus("S"), Plus("s"), OptC("qt"), Open(1), Plus("S"), Close(1),
      OptC("qt"), Star("s"), Lit("("), Open(2), Star("any"), Close(2), Lit(")"), Star("s"),
      Star("any"), Str(w_go)>>

\* the schema-analyzer.py expression without its final \s*GO\b
table_regex_no_go ==
    <<Open(1), Str(w_create), Plus("s"), Words(<<w_table, w_view>>), Close(1),
      Plus("s"), Lit("["), Open(2), Plus("nbr"), Close(2), Lit("]"), Lit("."),
      Lit("["), Open(3), Plus("nbr"), Close(3), Lit("]"),
      Star("s"), Opt(<<Lit("(")>>), Open(4), LazyStar("any"), Close(4), Opt(<<Lit(")")>>),
      Opt(<<Str(w_on), Plus("s"), Lit("["), Str(w_primary), Lit("]"), Star("nrp")>>)>>

\* (CREATE\s+(?:TABLE|VIEW)) \s+\[([^\]]+)\]\.\[([^\]]+)\] \s*\(?(.*?)\)?
\* (?:ON\s+\[PRIMARY\][^\)]*)? \s*GO\b                     (schema-analyzer.py, re.VERBOSE)
table_regex_lazy ==
    <<Open(1), Str(w_create), Plus("s"), Words(<<w_table, w_view>>), Close(1),
      Plus("s"), Lit("["), Open(2), Plus("nbr"), Close(2), Lit("]"), Lit("."),
      Lit("["), Open(3), Plus("nbr"), Close(3), Lit("]"),
      Star("s"), Opt(<<Lit("(")>>), Open(4), LazyStar("any"), Close(4), Opt(<<Lit(")")>>),
      Opt(<<Str(w_on), Plus("s"), Lit("["), Str(w_primary), Lit("]"), Star("nrp")>>),
      Star("s"), Str(w_go), WordB>>

\* r'\b(?:k1|k2|...)\b'   (tables.py, networks.py)
bounded_pattern(mode) == <<WordB, Words(Keywords(mode)), WordB>>

\* r'(?:k1|k2|...)'       (schema-analyzer.py scan_tables_sql_file)
plain_pattern(mode) == <<Words(Keywords(mode))>>

\* r'\[\s*([^\]]*(?:k1|k2|...)[^\]]*)\s*\]\s*\['   (schema-analyzer.py scan_columns_sql_file)
column_pattern(mode) ==
    <<Lit("["), Star("s"), Open(1), Star("nbr"), Words(Keywords(mode)), Star("nbr"), Close(1),
      Star("s"), Lit("]"), Star("s"), Lit("[")>>

(***************************************************************************)
(* The scan functions, on the content of a file that could be read.        *)
(* A scan yields [exc, hits]: exc is "none" when the function returns and  *)
(* names the exception it raises otherwise; a hit is a match record less   *)
(* its file field, which the caller's path fills in.                       *)
(***************************************************************************)
Returned(hits, blocks) == [exc |-> "none", hits |-> hits, blocks |-> blocks]

Raised(exc) == [exc |-> exc, hits |-> <<>>, blocks |-> <<>>]

Hit(database, table, match) == [database |-> database, table |-> table, match |-> match]

\* one iteration of "for table_match in table_regex.finditer(content)": table_name and the
\* column text (columns_section), with the span of the match in content
TableBlock(content, table_match, gname, gcols) ==
    [table   |-> Group(content, table_match, gname),
     columns |-> Group(content, table_match, gcols),
     b       |-> table_match.b,
     e       |-> table_match.e]

TableBlocks(content, regex, ng, gname, gcols) ==
    CHOOSE blocks \in
        {[j \in 1..Len(ms) |-> TableBlock(content, ms[j], gname, gcols)]
           : ms \in {FindIter(content, regex, ng, 1)}} : TRUE

RECURSIVE Concat(_)
Concat(ss) == IF Len(ss) = 0 THEN <<>> ELSE Head(ss) \o Concat(Tail(ss))

\* tables.py, networks.py: at most one record per block, when the pattern is found in the
\* searched text (if pattern and re.search(...): match_found = re.search(...).group(0))
SearchHits(database, table_name, text, pattern) ==
    CHOOSE hits \in
        {IF m.ok THEN <<Hit(database, table_name, Group0(text, m))>> ELSE <<>>
           : m \in {Search(text, pattern, 0, 1)}} : TRUE

\* schema-analyzer.py: one record per match of the pattern in the searched text
\* (for match_found in regex.finditer(text)); the matched term is group mg
FindIterHits(database, table_name, text, pattern, png, mg) ==
    CHOOSE hits \in
        {[j \in 1..Len(ms) |->
            Hit(database, table_name,
                IF mg = 0 THEN Group0(text, ms[j]) ELSE Group(text, ms[j], mg))]
           : ms \in {FindIter(text, pattern, png, 1)}} : TRUE

\* the result of the loop over the blocks: hits[j] are the records of block j
Collect(blocks, hits) ==
    Returned(Concat(hits), blocks)

\* npi_report.py scan_sql_file: the records are collected in a local list, and the exit()
\* that precedes the return statement ends the process before the list is returned
npi_scan_sql_file(content) == Raised("SystemExit")

\* networks.py scan_sql_file: the networks pattern, with \b, searched in the column text
networks_scan_sql_file(content) ==
    LET hitsOf(blk) == SearchHits(Database(content), blk.table, blk.columns,
                                  bounded_pattern("networks"))
    IN  CHOOSE r \in {Collect(blocks, [j \in 1..Len(blocks) |-> hitsOf(blocks[j])]) :
                        blocks \in {TableBlocks(content, table_regex_greedy, 2, 1, 2)}} : TRUE

\* columns.py scan_sql_file: compiling table_regex evaluates regex.IGNORECASE, and no name
\* regex is bound in the module (only re is imported)
columns_scan_sql_file(content, mode) == Raised("NameError")

\* tables.py, first script block, scan_sql_file(filepath): the dentists pattern, with \b,
\* searched in the table name
tables1_scan_sql_file(content) ==
    LET hitsOf(blk) == SearchHits(Database(content), blk.table, blk.table,
                                  bounded_pattern("dentists"))
    IN  CHOOSE r \in {Collect(blocks, [j \in 1..Len(blocks) |-> hitsOf(blocks[j])]) :
                        blocks \in {TableBlocks(content, table_regex_greedy, 2, 1, 2)}} : TRUE

\* tables.py, second script block, scan_sql_file(filepath, mode)
tables2_scan_sql_file(content, mode) ==
    LET hitsOf(blk) == SearchHits(Database(content), blk.table, blk.table,
                                  bounded_pattern(mode))
    IN  CHOOSE r \in {Collect(blocks, [j \in 1..Len(blocks) |-> hitsOf(blocks[j])]) :
                        blocks \in {TableBlocks(content, table_regex_greedy, 2, 1, 2)}} : TRUE

\* schema-analyzer.py scan_columns_sql_file: the bracketed-identifier pattern in group(4)
scan_columns_sql_file(content, mode) ==
    LET hitsOf(blk) == FindIterHits(Database(content), blk.table, blk.columns,
                                    column_pattern(mode), 1, 1)
    IN  CHOOSE r \in {Collect(blocks, [j \in 1..Len(blocks) |-> hitsOf(blocks[j])]) :
                        blocks \in {TableBlocks(content, table_regex_lazy, 4, 3, 4)}} : TRUE

\* schema-analyzer.py scan_tables_sql_file: the plain pattern in table_name, group(3)
scan_tables_sql_file(content, mode) ==
    LET hitsOf(blk) == FindIterHits(Database(content), blk.table, blk.table,
                                    plain_pattern(mode), 0, 0)
    IN  CHOOSE r \in {Collect(blocks, [j \in 1..Len(blocks) |-> hitsOf(blocks[j])]) :
                        blocks \in {TableBlocks(content, table_regex_lazy, 4, 3, 4)}} : TRUE

(***************************************************************************)
(* Input: DDL documents.  A document is described by the databases of its  *)
(* USE statements, its CREATE TABLE statements (name and columns) and the  *)
(* layout it is written in; Render gives its text.  The description is the *)
(* ground truth the scan results are compared with.                        *)
(***************************************************************************)
Col(name, base, len) == [name |-> name, base |-> base, len |-> len]

Block(name, cols) == [name |-> name, cols |-> cols]

t_int == <<"i","n","t">>

t_varchar == <<"v","a","r","c","h","a","r">>

\* [dbo].[Providers] (ProviderNPI int, Name varchar(50)) : a dentist keyword in the name and in a column
B_Providers ==
    Block(<<"P","r","o","v","i","d","e","r","s">>,
          << Col(<<"P","r","o","v","i","d","e","r","N","P","I">>, t_int, <<>>),
             Col(<<"N","a","m","e">>, t_varchar, <<"5","0">>) >>)

\* [dbo].[Cargo] (NPI varchar(50), Logo int) : a dentist keyword in a column only; the
\* letters "go" end the table name and a column name
B_Cargo ==
    Block(<<"C","a","r","g","o">>,
          << Col(<<"N","P","I">>, t_varchar, <<"5","0">>),
             Col(<<"L","o","g","o">>, t_int, <<>>) >>)

\* [dbo].[NPI] (Id int) : a dentist keyword as the whole table name, none in the columns
B_Npi == Block(<<"N","P","I">>, << Col(<<"I","d">>, t_int, <<>>) >>)

\* [dbo].[Dental Network] (Support Org int, Provider int) : phrases of the networks and the
\* dsos mode; the dentists keyword "provider" in a column only
B_Network ==
    Block(<<"D","e","n","t","a","l"," ","N","e","t","w","o","r","k">>,
          << Col(<<"S","u","p","p","o","r","t"," ","O","r","g">>, t_int, <<>>),
             Col(<<"P","r","o","v","i","d","e","r">>, t_int, <<>>) >>)

\* [dbo].[Provider, "Main"] (Provider int) : a name with a comma, a space and double quotes
B_Quoted ==
    Block(<<"P","r","o","v","i","d","e","r",","," ","\"","M","a","i","n","\"">>,
          << Col(<<"P","r","o","v","i","d","e","r">>, t_int, <<>>) >>)

\* [dbo].[Support Org] (Network Provider int) : phrases that begin with a word that is an
\* alternative of the same mode (support org / support, network provider / network)
B_Support ==
    Block(<<"S","u","p","p","o","r","t"," ","O","r","g">>,
          << Col(<<"N","e","t","w","o","r","k"," ","P","r","o","v","i","d","e","r">>, t_int, <<>>) >>)

\* the CREATE TABLE statements of a document, in order
BlockLists ==
    {<<>>, <<B_Providers>>, <<B_Cargo>>, <<B_Npi>>, <<B_Network>>, <<B_Support>>,
     <<B_Providers, B_Cargo>>, <<B_Cargo, B_Npi>>, <<B_Network, B_Providers>>}

FooDB == <<"F","o","o","D","B">>

Bar_1 == <<"B","a","r","_","1">>

\* the most USE statements a document holds
MaxUses == 2

\* the USE statements of a document, in order: FooDB last, Bar_1 before it
UseLists == {[j \in 1..n |-> IF j = n THEN FooDB ELSE Bar_1] : n \in 0..MaxUses}

\* "ssms"   the layout of a generated script: bracketed names, one column per line, GO on
\*          a line of its own
\* "plain"  one line, bare column names, as in the example
\*          USE [FooDB] CREATE TABLE [dbo].[Providers] (ProviderNPI int, Name varchar(50)) ON [PRIMARY] GO
\* "dense"  bracketed names and no white space inside a statement
\* "broken" the plain layout cut before the parentheses close: no ")" and no GO
Styles == {"ssms", "plain", "dense", "broken"}

WellFormed(doc) == doc.style # "broken"

RECURSIVE Join(_, _)
\* sep.join(ss)
Join(ss, sep) ==
    IF Len(ss) = 0 THEN <<>>
    ELSE IF Len(ss) = 1 THEN ss[1]
    ELSE ss[1] \o sep \o Join(Tail(ss), sep)

s_create_table == <<"C","R","E","A","T","E"," ","T","A","B","L","E"," ","[","d","b","o","]",".","[">>

s_on_primary == <<"O","N"," ","[","P","R","I","M","A","R","Y","]">>

s_use == <<"U","S","E"," ","[">>

RenderType(c, bracketed) ==
    (IF bracketed THEN <<"[">> \o c.base \o <<"]">> ELSE c.base)
        \o (IF Len(c.len) = 0 THEN <<>> ELSE <<"(">> \o c.len \o <<")">>)

RenderCol(c, style) ==
    CASE style = "ssms"  -> <<"\t", "[">> \o c.name \o <<"]", " ">> \o RenderType(c, TRUE)
                              \o <<" ","N","U","L","L">>
      [] style = "dense" -> <<"[">> \o c.name \o <<"]">> \o RenderType(c, TRUE)
      [] OTHER           -> c.name \o <<" ">> \o RenderType(c, FALSE)

RenderCols(b, style) ==
    Join([j \in 1..Len(b.cols) |-> RenderCol(b.cols[j], style)],
         CASE style = "ssms" -> <<",", "\n">> [] style = "dense" -> <<",">> [] OTHER -> <<",", " ">>)

RenderBlock(b, style) ==
    LET cols == RenderCols(b, style)
    IN  CASE style = "ssms"  -> s_create_table \o b.name \o <<"]", "(", "\n">> \o cols
                                  \o <<"\n", ")", " ">> \o s_on_primary \o <<"\n","G","O","\n">>
          [] style = "plain" -> s_create_table \o b.name \o <<"]", " ", "(">> \o cols
                                  \o <<")", " ">> \o s_on_primary \o <<" ","G","O">>
          [] style = "dense" -> s_create_table \o b.name \o <<"]", "(">> \o cols
                                  \o <<")","G","O","\n">>
          [] OTHER           -> s_create_table \o b.name \o <<"]", " ", "(">>
                                  \o SubSeq(cols, 1, Len(cols) - 1)

RenderUse(db, style) ==
    s_use \o db \o <<"]">> \o (IF style = "ssms" THEN <<"\n","G","O","\n">>
                               ELSE IF style = "dense" THEN <<"\n">> ELSE <<" ">>)

Doc(uses, blocks, style) == [uses |-> uses, blocks |-> blocks, style |-> style]

\* the text of a document
Render(doc) ==
    Concat([j \in 1..Len(doc.uses) |-> RenderUse(doc.uses[j], doc.style)])
      \o Join([j \in 1..Len(doc.blocks) |-> RenderBlock(doc.blocks[j], doc.style)],
              IF doc.style \in {"plain", "broken"} THEN <<" ">> ELSE <<>>)

(***************************************************************************)
(* Reading and scanning one file                                           *)
(***************************************************************************)
\* the scan function each script block calls
Fns == {"npi_report", "networks", "columns", "tables1", "tables2",
        "scan_columns_sql_file", "scan_tables_sql_file"}

\* the functions that take a mode
ModeFns == {"columns", "tables2", "scan_columns_sql_file", "scan_tables_sql_file"}

\* the part of a scan function after the file was read
ScanContent(fn, mode, content) ==
    CASE fn = "npi_report"            -> npi_scan_sql_file(content)
      [] fn = "networks"              -> networks_scan_sql_file(content)
      [] fn = "columns"               -> columns_scan_sql_file(content, mode)
      [] fn = "tables1"               -> tables1_scan_sql_file(content)
      [] fn = "tables2"               -> tables2_scan_sql_file(content, mode)
      [] fn = "scan_columns_sql_file" -> scan_columns_sql_file(content, mode)
      [] fn = "scan_tables_sql_file"  -> scan_tables_sql_file(content, mode)

\* the mode argument each function may be called with ("fixed": it takes none)
FnModes == {<<fn, m>> : fn \in ModeFns, m \in Modes} \cup {<<fn, "fixed">> : fn \in Fns \ ModeFns}

File(name, readable, doc) == [name |-> name, readable |-> readable, doc |-> doc]

\* a record that does not keep the path of its file
NamelessRecord(hit, filepath) ==
    [database |-> hit.database, table |-> hit.table, match |-> hit.match, file |-> Unknown]

Record(hit, filepath) ==
    [database |-> hit.database, table |-> hit.table, match |-> hit.match, file |-> filepath]

\* print(f"Error reading {filepath}: {e}")
ErrorReading(filepath) == [k |-> "error_reading", file |-> filepath]

\* A whole scan function on a file at filepath, given the result r of scanning its content:
\* [exc, recs, printed].
\* try: open(filepath, encoding='utf-16', errors='replace').read()
\* except Exception: print(...); return results      (results is still empty)
ScanResult(readable, r, filepath) ==
    IF ~readable
    THEN [exc |-> "none", recs |-> <<>>, printed |-> <<ErrorReading(filepath)>>]
    ELSE [exc |-> r.exc,
          recs |-> [j \in 1..Len(r.hits) |-> Record(r.hits[j], filepath)],
          printed |-> <<>>]

(***************************************************************************)
(* Report serialisation                                                    *)
(***************************************************************************)
k_database == <<"d","a","t","a","b","a","s","e">>

k_table == <<"t","a","b","l","e">>

k_match == <<"m","a","t","c","h">>

k_matched == <<"m","a","t","c","h","e","d">>

k_column == <<"c","o","l","u","m","n">>

k_file == <<"f","i","l","e">>

h_Database == <<"D","a","t","a","b","a","s","e">>

h_Table == <<"T","a","b","l","e">>

h_Matched == <<"M","a","t","c","h","e","d">>

h_Column == <<"C","o","l","u","m","n">>

h_File == <<"F","i","l","e">>

\* csv.writer, excel dialect, QUOTE_MINIMAL: a field holding the delimiter, the quote
\* character or a line break is quoted, and its quote characters are doubled
NeedsQuote(field) == \E j \in 1..Len(field) : field[j] \in {",", "\"", "\n", "\r"}

\* a field written as it is, never quoted
RawField(field) == field

CsvField(field) ==
    IF NeedsQuote(field)
    THEN <<"\"">> \o Concat([j \in 1..Len(field) |->
                               IF field[j] = "\"" THEN <<"\"", "\"">> ELSE <<field[j]>>])
              \o <<"\"">>
    ELSE field

\* writer.writerow(cells): the line written, with its terminator
CsvLine(cells) == Join([j \in 1..Len(cells) |-> CsvField(cells[j])], <<",">>) \o <<"\r", "\n">>

\* json.dumps of a string (ensure_ascii; the characters of the model are ASCII)
JsonString(v) ==
    <<"\"">> \o Concat([j \in 1..Len(v) |->
                          CASE v[j] = "\"" -> <<"\\", "\"">>
                            [] v[j] = "\\" -> <<"\\", "\\">>
                            [] v[j] = "\n" -> <<"\\", "n">>
                            [] v[j] = "\r" -> <<"\\", "r">>
                            [] v[j] = "\t" -> <<"\\", "t">>
                            [] OTHER       -> <<v[j]>>])
         \o <<"\"">>

\* the key under which each script stores the matched term of a record
MatchKey(fn) ==
    CASE fn \in {"npi_report", "networks"} -> k_column
      [] fn = "tables1"                   -> k_matched
      [] OTHER                            -> k_match

\* json.dumps(results, indent=4): one object per record, keys in insertion order
JsonReport(results, fn) ==
    [k |-> "json",
     objs |-> [j \in 1..Len(results) |->
                 << <<k_database, JsonString(results[j].database)>>,
                    <<k_table, JsonString(results[j].table)>>,
                    <<MatchKey(fn), JsonString(results[j].match)>>,
                    <<k_file, JsonString(results[j].file)>> >>]]

CsvRow(cells) == [k |-> "csv", line |-> CsvLine(cells)]

\* writer.writerow(["Database", "Table", "Matched", "File"]) and one row per result
CsvReport(results, fn) ==
    <<CsvRow(<<h_Database, h_Table, IF fn = "networks" THEN h_Column ELSE h_Matched, h_File>>)>>
      \o [j \in 1..Len(results) |->
            CsvRow(<<results[j].database, results[j].table, results[j].match, results[j].file>>)]

MdRow(cells) == [k |-> "md", line |-> <<"|", " ">> \o Join(cells, <<" ", "|", " ">>) \o <<" ", "|">>]

\* print_markdown_report
MarkdownReport(results, fn) ==
    <<MdRow(<<h_Database, h_Table, IF fn = "networks" THEN h_Column ELSE h_Matched, h_File>>),
      MdRow(<<<<"-","-","-">>, <<"-","-","-">>, <<"-","-","-">>, <<"-","-","-">>>>)>>
      \o [j \in 1..Len(results) |->
            MdRow(<<results[j].database, results[j].table, results[j].match, results[j].file>>)]

\* npi_report.py print_report
NpiReport(results) ==
    IF Len(results) = 0 THEN <<[k |-> "text", line |-> "No columns with 'NPI' found"]>>
    ELSE <<[k |-> "text", line |-> "Found the following NPI columns:"]>>
           \o [j \in 1..Len(results) |-> [k |-> "npi_row", rec |-> results[j]]]

\* print(header): f"--- Report for {mode.capitalize()} ... ---"
Header(fn, mode) ==
    [k |-> "header", mode |-> mode,
     title |-> CASE fn = "columns"               -> "Mode"
                 [] fn = "tables2"               -> "Table Name Mode"
                 [] fn = "scan_tables_sql_file"  -> "Mode (Tables Only)"
                 [] OTHER                        -> "Mode (Tables and Columns)"]

\* what the script prints for one scan: the if args.json / elif args.markdown / else chain
ReportLines(fn, mode, json, markdown, results) ==
    CASE fn = "npi_report" -> NpiReport(results)
      [] fn \in {"networks", "tables1"} ->
            IF json THEN <<JsonReport(results, fn)>>
            ELSE IF markdown THEN MarkdownReport(results, fn)
            ELSE CsvReport(results, fn)
      [] OTHER ->
            <<Header(fn, mode)>>
              \o (IF json THEN <<JsonReport(results, fn)>> ELSE CsvReport(results, fn))

(***************************************************************************)
(* Input: the file system and the command line                             *)
(***************************************************************************)
P_ANA == <<"D","T","T","-","A","N","A","-","P","R","D">>

P_TRX == <<"D","T","T","-","T","R","X","-","P","R","D">>

P_LIVE == <<"L","i","v","e","s","q","l","3">>

\* directories / paths = ["DTT-ANA-PRD", "DTT-TRX-PRD", "Livesql3"]
DefaultPaths == <<P_ANA, P_TRX, P_LIVE>>

P_NOTES == <<"n","o","t","e","s",".","t","x","t">>

P_NOPE == <<"n","o","p","e">>

\* a script with hits for every script: USE [FooDB], [dbo].[NPI] and [dbo].[Provider, "Main"]
D_Hits == Doc(<<FooDB>>, <<B_Npi, B_Quoted>>, "ssms")

\* the example document
D_Example == Doc(<<FooDB>>, <<B_Providers>>, "plain")

\* the documents of the files of the runs, and the result of every scan function on each
RunDocs == {D_Hits, D_Example}

ScanTable ==
    {[fn |-> fm[1], mode |-> fm[2], doc |-> d, r |-> ScanContent(fm[1], fm[2], Render(d))]
        : fm \in FnModes, d \in RunDocs}

\* a scan function on the file f at filepath
ScanFn(fn, mode, f, filepath) ==
    ScanResult(f.readable,
               (CHOOSE t \in ScanTable : t.fn = fn /\ t.mode = mode /\ t.doc = f.doc).r,
               filepath)

\* the most files the directory DTT-ANA-PRD holds
MaxFiles == 2

\* The kinds of file DTT-ANA-PRD may hold: a readable .sql file, a readable file named
\* .SQL, a .sql file that cannot be read, a readable file that is no .sql file
EntryKinds == {"sql", "SQL", "locked", "txt"}

\* the file of kind kind at position j of the directory listing
EntryFile(kind, j) ==
    CASE kind = "sql"    -> File(<<LowerSeq[j]>> \o <<".","s","q","l">>, TRUE, D_Hits)
      [] kind = "SQL"    -> File(<<LowerSeq[j]>> \o <<".","S","Q","L">>, TRUE, D_Example)
      [] kind = "locked" -> File(<<LowerSeq[j]>> \o <<".","s","q","l">>, FALSE, D_Hits)
      [] kind = "txt"    -> File(<<LowerSeq[j]>> \o <<".","t","x","t">>, TRUE, D_Hits)

Listings == UNION {[1..n -> EntryKinds] : n \in 0..MaxFiles}

\* The file system: DTT-ANA-PRD is a directory holding the listing ls, Livesql3 a directory
\* holding z.sql, notes.txt a file; nothing else exists (DTT-TRX-PRD and nope do not)
IsDir(path) == path \in {P_ANA, P_LIVE}

IsFile(path) == path = P_NOTES

FileAt(path) == File(P_NOTES, TRUE, D_Hits)

\* os.walk(path): the files met, in walk order; nothing for a path that is no directory
Walk(path, ls) ==
    IF path = P_ANA THEN [j \in 1..Len(ls) |-> EntryFile(ls[j], j)]
    ELSE IF path = P_LIVE THEN <<File(<<"z",".","s","q","l">>, TRUE, D_Hits)>>
    ELSE <<>>

\* os.path.join(root, file)
PathJoin(root, file) == root \o <<"/">> \o file

\* file.lower().endswith('.sql')
EndsWithSql(name) ==
    /\ Len(name) >= 4
    /\ SubSeq(Lower(name), Len(name) - 3, Len(name)) = <<".","s","q","l">>

Scripts == {"npi_report", "networks", "columns", "tables", "schema_analyzer"}

ModeSets == {{}, {"dentists"}, {"networks"}, {"dentists", "dsos"}}

PathArgs == {<<>>, <<P_ANA>>, <<P_NOPE, P_ANA>>, <<P_ANA, P_NOPE, P_LIVE>>, <<P_NOTES>>}

\* the command lines considered
Argvs ==
    [modes : ModeSets, json : BOOLEAN, markdown : BOOLEAN, no_columns : BOOLEAN, paths : PathArgs]

(***************************************************************************)
(* Argument parsing                                                        *)
(***************************************************************************)
\* the options the parser of a script block declares (add_argument)
Declares(script, block) ==
    CASE script = "networks"                -> {"markdown", "json"}
      [] script = "tables" /\ block = 1     -> {"markdown", "json"}
      [] script = "tables" /\ block = 2     -> {"modes", "json"}
      [] script = "columns"                 -> {"modes", "json", "paths"}
      [] script = "schema_analyzer"         -> {"modes", "json", "no_columns", "paths"}
      [] OTHER                              -> {}

\* the options a command line uses
Uses_(argv) ==
    {o \in {"modes", "json", "markdown", "no_columns", "paths"} :
        CASE o = "modes"      -> argv.modes # {}
          [] o = "json"       -> argv.json
          [] o = "markdown"   -> argv.markdown
          [] o = "no_columns" -> argv.no_columns
          [] o = "paths"      -> Len(argv.paths) > 0}

\* modes = []; if args.dentists: ...; if args.networks: ...; if args.dsos: ...
ModeList(argv) ==
    (IF "dentists" \in argv.modes THEN <<"dentists">> ELSE <<>>)
      \o (IF "networks" \in argv.modes THEN <<"networks">> ELSE <<>>)
      \o (IF "dsos" \in argv.modes THEN <<"dsos">> ELSE <<>>)

HasModes(script, block) == "modes" \in Declares(script, block)

\* parser.parse_args() and the check of modes: "ok", or the parser error that ends the run.
\* npi_report.py has no parser and ignores its command line.
Parse(script, block, argv) ==
    IF script = "npi_report" THEN "ok"
    ELSE IF ~(Uses_(argv) \subseteq Declares(script, block)) THEN "unrecognized arguments"
    ELSE IF HasModes(script, block) /\ ModeList(argv) = <<>> THEN "No mode selected"
    ELSE "ok"

\* the scan function a script block calls for each file
FnOf(script, block, argv) ==
    CASE script = "npi_report" -> "npi_report"
      [] script = "networks"   -> "networks"
      [] script = "columns"    -> "columns"
      [] script = "tables"     -> IF block = 1 THEN "tables1" ELSE "tables2"
      [] OTHER -> IF argv.no_columns THEN "scan_tables_sql_file" ELSE "scan_columns_sql_file"

\* the scripts whose scan_directories tests isfile / isdir / else
ChecksPaths(script) == script \in {"columns", "schema_analyzer"}

\* the paths a run walks
PathsOf(script, argv) ==
    IF ChecksPaths(script) /\ Len(argv.paths) > 0 THEN argv.paths ELSE DefaultPaths

\* the files a walk of path hands to the scan function, each with the path it is given:
\* the path itself if it is a file (columns.py, schema-analyzer.py), the .sql files under
\* it if it is a directory, none otherwise
FilesOf(scr, path, ls) ==
    IF ChecksPaths(scr) /\ IsFile(path) THEN <<[f |-> FileAt(path), filepath |-> path]>>
    ELSE IF IsDir(path)
    THEN LET fs  == Walk(path, ls)
             sql == SelectSeq([j \in 1..Len(fs) |-> [f |-> fs[j],
                                                     filepath |-> PathJoin(path, fs[j].name)]],
                              LAMBDA x : EndsWithSql(x.f.name))
         IN  sql
    ELSE <<>>

\* all the files of a call of scan_directories, in scan order
AllFiles(scr, paths, ls) == Concat([j \in 1..Len(paths) |-> FilesOf(scr, paths[j], ls)])

\* scan_directories(paths, mode) when no scan raises: all_results
scan_directories(scr, fn, mode, paths, ls) ==
    LET fs == AllFiles(scr, paths, ls)
    IN  Concat([j \in 1..Len(fs) |-> ScanFn(fn, mode, fs[j].f, fs[j].filepath).recs])

\* the list modes of the first script block of a run
RunModes(scr, av) == IF HasModes(scr, 1) THEN ModeList(av) ELSE <<"fixed">>

(***************************************************************************)
(* A run of a script                                                       *)
(***************************************************************************)
VARIABLES
    script,     \* the script run
    argv,       \* its command line
    listing,    \* the kinds of the files of DTT-ANA-PRD, in walk order
    pc,         \* "parse", "walk", "exit"
    block,      \* the script block running (tables.py holds two)
    modes,      \* the list modes of the script block
    mi,         \* the index of the mode being scanned
    pi,         \* the index of the path being walked
    fi,         \* the index of the next file of the directory being walked
    results,    \* all_results of the scan_directories call in progress
    out,        \* standard output
    log,        \* logger.error records and the parser's error
    status,     \* "running", "ok", "usage_error", "SystemExit", "NameError"
    scanned,    \* history: the file paths handed to a scan function, per block and mode
    reports,    \* history: the reports printed, each with the results it was given
    subject,    \* the document a scan function is applied to on its own
    applied     \* that application: the function, its mode and its result

vars == <<script, argv, listing, pc, block, modes, mi, pi, fi, results, out, log, status,
          scanned, reports, subject, applied>>

inputs == <<script, argv, listing>>

unit == <<subject, applied>>

NoCall == [fn |-> "none", mode |-> "none", r |-> Raised("none")]

Init ==
    /\ script \in Scripts
    /\ argv \in Argvs
    /\ listing \in Listings
    /\ pc = "parse"
    /\ block = 1
    /\ modes = <<>>
    /\ mi = 1
    /\ pi = 1
    /\ fi = 1
    /\ results = <<>>
    /\ out = <<>>
    /\ log = <<>>
    /\ status = "running"
    /\ scanned = <<>>
    /\ reports = <<>>
    /\ subject = Doc(<<>>, <<>>, "plain")
    /\ applied = NoCall

Paths == PathsOf(script, argv)

Fn == FnOf(script, block, argv)

Mode == modes[mi]

\* args = parser.parse_args(); modes = [...]; if not modes: parser.error(...)
ParseArgs ==
    /\ pc = "parse"
    /\ LET v == Parse(script, block, argv)
       IN  IF v = "ok"
           THEN /\ pc' = "walk"
                /\ modes' = IF HasModes(script, block) THEN ModeList(argv) ELSE <<"fixed">>
                /\ mi' = 1
                /\ pi' = 1
                /\ fi' = 1
                /\ results' = <<>>
                /\ UNCHANGED <<log, status>>
           ELSE /\ pc' = "exit"
                /\ status' = "usage_error"
                /\ log' = Append(log, [k |-> "usage", why |-> v])
                /\ UNCHANGED <<modes, mi, pi, fi, results>>
    /\ UNCHANGED <<inputs, unit, block, out, scanned, reports>>

\* the path is one whose files the loop over os.walk visits
Walking == pc = "walk" /\ pi <= Len(Paths) /\ IsDir(Paths[pi])

\* the path is handed to the scan function itself (if os.path.isfile(path))
Direct == pc = "walk" /\ pi <= Len(Paths) /\ ChecksPaths(script) /\ IsFile(Paths[pi])

\* file_results = scan(...); all_results.extend(file_results) on file f at filepath
ScanStep(f, filepath, nextPi, nextFi) ==
    LET r == ScanFn(Fn, Mode, f, filepath)
    IN  /\ scanned' = Append(scanned, [block |-> block, mode |-> Mode, file |-> filepath])
        /\ out' = out \o r.printed
        /\ IF r.exc = "none"
           THEN /\ results' = results \o r.recs
                /\ pi' = nextPi
                /\ fi' = nextFi
                /\ UNCHANGED <<pc, status>>
           ELSE /\ pc' = "exit"
                /\ status' = r.exc
                /\ UNCHANGED <<results, pi, fi>>
        /\ UNCHANGED <<inputs, unit, block, modes, mi, log, reports>>

ScanFile ==
    \/ /\ Direct
       /\ ScanStep(FileAt(Paths[pi]), Paths[pi], pi + 1, 1)
    \/ /\ Walking
       /\ fi <= Len(Walk(Paths[pi], listing))
       /\ EndsWithSql(Walk(Paths[pi], listing)[fi].name)
       /\ ScanStep(Walk(Paths[pi], listing)[fi],
                   PathJoin(Paths[pi], Walk(Paths[pi], listing)[fi].name), pi, fi + 1)

\* a file of the walk whose name does not end in .sql
SkipFile ==
    /\ Walking
    /\ fi <= Len(Walk(Paths[pi], listing))
    /\ ~EndsWithSql(Walk(Paths[pi], listing)[fi].name)
    /\ fi' = fi + 1
    /\ UNCHANGED <<inputs, unit, pc, block, modes, mi, pi, results, out, log, status, scanned, reports>>

\* the walk of a path is exhausted (at once, for a path that is no directory in the
\* scripts that call os.walk on every path)
NextPath ==
    /\ pc = "walk"
    /\ pi <= Len(Paths)
    /\ \/ IsDir(Paths[pi]) /\ fi > Len(Walk(Paths[pi], listing))
       \/ ~ChecksPaths(script) /\ ~IsDir(Paths[pi])
    /\ pi' = pi + 1
    /\ fi' = 1
    /\ UNCHANGED <<inputs, unit, pc, block, modes, mi, results, out, log, status, scanned, reports>>

\* else: logger.error(f"Path {path} is neither a file nor a directory")
BadPath ==
    /\ pc = "walk"
    /\ pi <= Len(Paths)
    /\ ChecksPaths(script)
    /\ ~IsFile(Paths[pi])
    /\ ~IsDir(Paths[pi])
    /\ log' = Append(log, [k |-> "error", path |-> Paths[pi]])
    /\ pi' = pi + 1
    /\ fi' = 1
    /\ UNCHANGED <<inputs, unit, pc, block, modes, mi, results, out, status, scanned, reports>>

\* scan_directories has returned: print the report, then go on with the next mode, the
\* next script block of the file, or the end of the script
Report ==
    /\ pc = "walk"
    /\ pi > Len(Paths)
    /\ LET lines == ReportLines(Fn, Mode, argv.json, argv.markdown, results)
       IN  /\ out' = out \o lines
           /\ reports' = Append(reports, [block |-> block, mode |-> Mode, fn |-> Fn,
                                           results |-> results, lines |-> lines])
    /\ IF mi < Len(modes)
       THEN /\ mi' = mi + 1
            /\ pi' = 1
            /\ fi' = 1
            /\ results' = <<>>
            /\ UNCHANGED <<pc, block, status>>
       ELSE IF script = "tables" /\ block = 1
       THEN /\ pc' = "parse"
            /\ block' = 2
            /\ UNCHANGED <<mi, pi, fi, results, status>>
       ELSE /\ pc' = "exit"
            /\ status' = "ok"
            /\ UNCHANGED <<block, mi, pi, fi, results>>
    /\ UNCHANGED <<inputs, unit, modes, log, scanned>>

Next ==
    \/ ParseArgs
    \/ ScanFile
    \/ SkipFile
    \/ NextPath
    \/ BadPath
    \/ Report

Spec == Init /\ [][Next]_vars

(***************************************************************************)
(* A scan function applied to the text of one document                     *)
(***************************************************************************)
\* the documents considered
Docs == {Doc(uses, blocks, style) : uses \in UseLists, blocks \in BlockLists, style \in Styles}

InitScan ==
    /\ subject \in Docs
    /\ applied = NoCall
    /\ script = "none"
    /\ argv = [modes |-> {}, json |-> FALSE, markdown |-> FALSE, no_columns |-> FALSE,
               paths |-> <<>>]
    /\ listing = <<>>
    /\ pc = "exit"
    /\ block = 1
    /\ modes = <<>>
    /\ mi = 1
    /\ pi = 1
    /\ fi = 1
    /\ results = <<>>
    /\ out = <<>>
    /\ log = <<>>
    /\ status = "ok"
    /\ scanned = <<>>
    /\ reports = <<>>

\* content = f.read() has given the text of subject; the rest of the function fn runs
Apply(fn, mode) ==
    /\ applied' = [fn |-> fn, mode |-> mode, r |-> ScanContent(fn, mode, Render(subject))]
    /\ UNCHANGED <<inputs, subject, pc, block, modes, mi, pi, fi, results, out, log, status,
                   scanned, reports>>

CallNpiReport ==
    /\ applied = NoCall
    /\ Apply("npi_report", "fixed")

CallNetworks ==
    /\ applied = NoCall
    /\ Apply("networks", "fixed")

CallColumns ==
    /\ applied = NoCall
    /\ \E mode \in Modes : Apply("columns", mode)

CallTables1 ==
    /\ applied = NoCall
    /\ Apply("tables1", "fixed")

CallTables2 ==
    /\ applied = NoCall
    /\ \E mode \in Modes : Apply("tables2", mode)

CallScanColumns ==
    /\ applied = NoCall
    /\ \E mode \in Modes : Apply("scan_columns_sql_file", mode)

CallScanTables ==
    /\ applied = NoCall
    /\ \E mode \in Modes : Apply("scan_tables_sql_file", mode)

NextScan ==
    \/ CallNpiReport
    \/ CallNetworks
    \/ CallColumns
    \/ CallTables1
    \/ CallTables2
    \/ CallScanColumns
    \/ CallScanTables

SpecScan == InitScan /\ [][NextScan]_vars

(***************************************************************************)
(* Reading a report back                                                   *)
(***************************************************************************)
RECURSIVE ParseCsv(_, _, _, _, _)
\* csv.reader on one row (excel dialect): st is "start" (of a field), "field", "quoted"
\* (inside quotes) or "qq" (a quote met inside quotes)
ParseCsv(s, i, st, cur, cells) ==
    IF i > Len(s) THEN Append(cells, cur)
    ELSE LET c == s[i] IN
         CASE st = "quoted" ->
                IF c = "\"" THEN ParseCsv(s, i + 1, "qq", cur, cells)
                ELSE ParseCsv(s, i + 1, "quoted", Append(cur, c), cells)
           [] st = "qq" /\ c = "\"" -> ParseCsv(s, i + 1, "quoted", Append(cur, c), cells)
           [] st # "quoted" /\ c = "," -> ParseCsv(s, i + 1, "start", <<>>, Append(cells, cur))
           [] st = "start" /\ c = "\"" -> ParseCsv(s, i + 1, "quoted", cur, cells)
           [] OTHER -> ParseCsv(s, i + 1, "field", Append(cur, c), cells)

\* the cells of a line written by csv.writer, without its terminator
CsvCells(line) == ParseCsv(SubSeq(line, 1, Len(line) - 2), 1, "start", <<>>, <<>>)

RECURSIVE JsonUnescape(_, _)
JsonUnescape(v, i) ==
    IF i > Len(v) THEN <<>>
    ELSE IF v[i] = "\\" /\ i < Len(v)
    THEN <<CASE v[i + 1] = "n" -> "\n"
             [] v[i + 1] = "r" -> "\r"
             [] v[i + 1] = "t" -> "\t"
             [] OTHER          -> v[i + 1]>> \o JsonUnescape(v, i + 2)
    ELSE <<v[i]>> \o JsonUnescape(v, i + 1)

\* json.loads of a string literal
JsonValue(v) == JsonUnescape(SubSeq(v, 2, Len(v) - 1), 1)

Malformed == [database |-> <<>>, table |-> <<>>, match |-> <<>>, file |-> <<"?">>]

\* the records a reader gets from the rows of a CSV report, after its header row
CsvRecords(rows) ==
    [j \in 1..Len(rows) |->
        LET cells == CsvCells(rows[j].line)
        IN  IF Len(cells) = 4
            THEN [database |-> cells[1], table |-> cells[2], match |-> cells[3], file |-> cells[4]]
            ELSE Malformed]

\* the records a reader gets from a JSON report
JsonRecords(item, fn) ==
    [j \in 1..Len(item.objs) |->
        LET o == item.objs[j]
        IN  IF <<o[1][1], o[2][1], o[3][1], o[4][1]>> = <<k_database, k_table, MatchKey(fn), k_file>>
            THEN [database |-> JsonValue(o[1][2]), table |-> JsonValue(o[2][2]),
                  match |-> JsonValue(o[3][2]), file |-> JsonValue(o[4][2])]
            ELSE Malformed]

IsTabular(rp) == \E j \in 1..Len(rp.lines) : rp.lines[j].k \in {"csv", "json"}

\* the records of a printed JSON or CSV report
ReportRecords(rp) ==
    LET body == SelectSeq(rp.lines, LAMBDA x : x.k \in {"csv", "json"})
    IN  IF body[1].k = "json" THEN JsonRecords(body[1], rp.fn) ELSE CsvRecords(Tail(body))

(***************************************************************************)
(* Properties of a run                                                     *)
(***************************************************************************)
\* sub occurs in s
Contains(s, sub) == \E i \in 1..(Len(s) - Len(sub) + 1) : SubSeq(s, i, i + Len(sub) - 1) = sub

Ended == pc = "exit"

\* the first script block accepted the command line
FirstBlockRan == Parse(script, 1, argv) = "ok"

ModesOfRun == Range(RunModes(script, argv))

WasScanned(b, m, filepath) == [block |-> b, mode |-> m, file |-> filepath] \in Range(scanned)

\* the records of all the reports printed so far
Reported == UNION {Range(reports[j].results) : j \in 1..Len(reports)}

\* C1: in every script, when a file cannot be read a message is printed, the file adds no
\* record, and every other .sql file of the walk is still scanned. Stated on the runs that
\* have ended: for each mode, each unreadable file has its message in the output and no
\* record, and all its sibling files were handed to the scan function.
C1_UnreadableFileDoesNotAbort ==
    (Ended /\ FirstBlockRan) =>
        LET fs == AllFiles(script, Paths, listing)
        IN  \A m \in ModesOfRun : \A j \in 1..Len(fs) :
                ~fs[j].f.readable =>
                    /\ ErrorReading(fs[j].filepath) \in Range(out)
                    /\ \A rec \in Reported : rec.file # fs[j].filepath
                    /\ \A k \in 1..Len(fs) : WasScanned(1, m, fs[k].filepath)

\* C2: in columns.py, tables.py and schema-analyzer.py, a run with none of --dentists,
\* --networks, --dsos ends in an argument-parsing error before any file is scanned and
\* before any report is printed.
C2_NoModeIsFatalBeforeScanning ==
    (script \in {"columns", "tables", "schema_analyzer"} /\ argv.modes = {}) =>
        /\ scanned = <<>>
        /\ reports = <<>>
        /\ Ended => status = "usage_error"

\* C3: in every script, a run over readable .sql files scans every file found, each scan
\* returning to the walker, and then prints the report. The runs are finite, so "eventually"
\* is stated on the runs that have ended: a report was printed for each mode, and every
\* file was scanned before it.
C3_ReportAfterAllScanned ==
    (Ended /\ FirstBlockRan /\ "locked" \notin Range(listing)) =>
        LET fs == AllFiles(script, Paths, listing)
        IN  \A m \in ModesOfRun :
                /\ \E j \in 1..Len(reports) : reports[j].block = 1 /\ reports[j].mode = m
                /\ \A k \in 1..Len(fs) : WasScanned(1, m, fs[k].filepath)
                /\ status \notin {"SystemExit", "NameError"}

\* C8: for the same input paths and mode, the JSON report and the CSV report hold the same
\* records in the same order. Whichever format a run prints, reading the report back gives
\* the records scan_directories yields for the paths, the files and the mode, which do not
\* depend on the format.
C8_JsonAndCsvSameRecords ==
    \A j \in 1..Len(reports) :
        IsTabular(reports[j]) =>
            /\ ReportRecords(reports[j])
                 = scan_directories(script, reports[j].fn, reports[j].mode, Paths, listing)
            /\ (\E k \in 1..Len(reports[j].lines) : reports[j].lines[k].k = "json") <=> argv.json

\* a CSV report of several records, one with a table name that has to be quoted
C8_Witness ==
    \E j \in 1..Len(reports) :
        /\ IsTabular(reports[j])
        /\ ~argv.json
        /\ Len(reports[j].results) >= 2
        /\ \E k \in 1..Len(reports[j].results) : NeedsQuote(reports[j].results[k].table)

\* C9: in columns.py and schema-analyzer.py, a path that is neither a file nor a directory
\* is logged as an error and adds no record, and every other path of the list, before and
\* after it, is still scanned.
C9_InvalidPathIsSkipped ==
    (script \in {"columns", "schema_analyzer"} /\ Ended /\ FirstBlockRan) =>
        \A m \in ModesOfRun : \A j \in 1..Len(Paths) :
            (~IsFile(Paths[j]) /\ ~IsDir(Paths[j])) =>
                /\ [k |-> "error", path |-> Paths[j]] \in Range(log)
                /\ \A rec \in Reported : rec.file # Paths[j]
                /\ \A k \in 1..Len(Paths) :
                       LET fs == FilesOf(script, Paths[k], listing)
                       IN  \A x \in 1..Len(fs) : WasScanned(1, m, fs[x].filepath)

\* C11: a scan function is called only on files whose name ends in .sql, whatever the case
\* of the letters: every file path ever handed to a scan function, whether met by the walk
\* or given as a path argument, ends in .sql.
C11_OnlySqlFilesScanned ==
    \A j \in 1..Len(scanned) : EndsWithSql(scanned[j].file)

\* no path of the run is, or holds, a file whose name ends in .sql
NoSqlFile ==
    \A j \in 1..Len(Paths) :
        /\ IsFile(Paths[j]) => ~EndsWithSql(Paths[j])
        /\ \A k \in 1..Len(Walk(Paths[j], listing)) :
               ~EndsWithSql(Walk(Paths[j], listing)[k].name)

\* the report holds no record row: read back it gives no record, and it has no line
\* beyond its header lines
HeaderOnly(rp) ==
    /\ IsTabular(rp) => ReportRecords(rp) = <<>>
    /\ \A k \in 1..Len(rp.lines) : rp.lines[k].k # "npi_row"
    /\ Len(SelectSeq(rp.lines, LAMBDA x : x.k = "md")) <= 2
    /\ Len(SelectSeq(rp.lines, LAMBDA x : x.k = "csv")) <= 1

\* C12: when the paths of a run hold no .sql file, the result list given to each report
\* is empty and the report printed holds its header only (CSV: the mode header line and
\* the row of column names; JSON: the header and an empty array), with no record row.
C12_NoSqlFileGivesHeaderOnly ==
    NoSqlFile =>
        \A j \in 1..Len(reports) :
            /\ reports[j].results = <<>>
            /\ HeaderOnly(reports[j])

\* the records of the file x of a walk, scanned by fn in mode m on its own
PerFile(fn, m, x) == ScanFn(fn, m, x.f, x.filepath).recs

\* the number of files handed to the scan function so far in the scan in progress
ScannedNow == Cardinality({j \in 1..Len(scanned) : scanned[j].block = block /\ scanned[j].mode = Mode})

\* C14: the records of a file depend only on its path, its content and the mode, never on
\* the files scanned before it, and the result of scan_directories is the concatenation of
\* the record lists of the files in traversal order (the order of the path arguments, then
\* the order of the walk, then the order of the blocks in the file), each record with the
\* path of its file in its file field. Stated on the list being built, which after n files
\* is the concatenation of what each of the first n files gives when scanned on its own;
\* on the list given to each report, where the records with the path of a file are the
\* records of that file; on the file field of every record; and on the order of the
\* records of one file, which is that of the blocks of the file.
C14_ResultsAreConcatenation ==
    LET fs == AllFiles(script, Paths, listing)
    IN  /\ pc = "walk" =>
               /\ ScannedNow <= Len(fs)
               /\ results = Concat([k \in 1..ScannedNow |-> PerFile(Fn, Mode, fs[k])])
        /\ \A j \in 1..Len(reports) :
               LET rp == reports[j]
               IN  /\ rp.results = Concat([k \in 1..Len(fs) |-> PerFile(rp.fn, rp.mode, fs[k])])
                   /\ \A k \in 1..Len(fs) :
                          SelectSeq(rp.results, LAMBDA rec : rec.file = fs[k].filepath)
                            = PerFile(rp.fn, rp.mode, fs[k])
                   /\ \A k \in 1..Len(rp.results) :
                          \E x \in 1..Len(fs) :
                              /\ rp.results[k].file = fs[x].filepath
                              /\ fs[x].f.readable
                   /\ \A a, b \in 1..Len(rp.results) :
                          (a < b /\ rp.results[a].file = rp.results[b].file) =>
                              \E x \in 1..Len(fs) :
                                  LET blocks == fs[x].f.doc.blocks
                                  IN  \E ka, kb \in 1..Len(blocks) :
                                          /\ ka <= kb
                                          /\ Contains(rp.results[a].table, blocks[ka].name)
                                          /\ Contains(rp.results[b].table, blocks[kb].name)

\* a report of the records of two files, the second of them having been scanned after
\* the first, with records of two blocks of the first file
C14_Witness ==
    \E j \in 1..Len(reports) :
        \E a, b \in 1..Len(reports[j].results) :
            /\ a < b
            /\ reports[j].results[a].file # reports[j].results[b].file
            /\ reports[j].results[a].file = PathJoin(P_ANA, <<"a",".","s","q","l">>)
            /\ \E c \in 1..Len(reports[j].results) :
                   /\ reports[j].results[c].file = reports[j].results[a].file
                   /\ reports[j].results[c].table # reports[j].results[a].table

\* the modes the command line selects, in the order dentists, networks, dsos
Selected == SelectSeq(<<"dentists", "networks", "dsos">>, LAMBDA m : m \in argv.modes)

\* C16: in columns.py and schema-analyzer.py the modes selected are processed in the order
\* dentists, networks, dsos, whatever the order of the flags; each of them scans all the
\* files of all the paths and prints exactly one report, and the report of a mode is
\* printed before the scan of the next mode starts. Stated on the histories of a run: the
\* reports are those of the selected modes in that order, each printed after all the files
\* were scanned in its mode; a file is scanned in the k-th mode only when k - 1 reports
\* have been printed; and a run that has ended has printed the report of every mode.
C16_ModesInFixedOrder ==
    (script \in {"columns", "schema_analyzer"} /\ FirstBlockRan) =>
        LET fs == AllFiles(script, Paths, listing)
        IN  /\ Len(reports) <= Len(Selected)
            /\ \A j \in 1..Len(reports) :
                   /\ reports[j].mode = Selected[j]
                   /\ \A k \in 1..Len(fs) : WasScanned(1, Selected[j], fs[k].filepath)
            /\ \A j \in 1..Len(scanned) :
                   \E k \in 1..Len(Selected) :
                       /\ scanned[j].mode = Selected[k]
                       /\ k <= Len(reports) + 1
            /\ \A m \in argv.modes :
                   Cardinality({j \in 1..Len(scanned) : scanned[j].mode = m}) <= Len(fs)
            /\ Ended => Len(reports) = Len(Selected)

(***************************************************************************)
(* Properties of a scan function                                           *)
(***************************************************************************)
StartsWith(s, prefix) == Len(s) >= Len(prefix) /\ SubSeq(s, 1, Len(prefix)) = prefix

EndsWith(s, suffix) == Len(s) >= Len(suffix) /\ SubSeq(s, Len(s) - Len(suffix) + 1, Len(s)) = suffix

\* the position in the text of d of the first character of its k-th CREATE statement
StmtStart(d, k) ==
    Len(Render(Doc(d.uses, SubSeq(d.blocks, 1, k - 1), d.style)))
      + (IF k > 1 /\ d.style \in {"plain", "broken"} THEN 1 ELSE 0) + 1

\* the position that follows the GO batch separator of the k-th statement of d
StmtGoEnd(d, k) ==
    StmtStart(d, k) + Len(RenderBlock(d.blocks[k], d.style))
      - (IF d.style \in {"ssms", "dense"} THEN 1 ELSE 0)

\* an identifier of d (a table or a column name) ends in the letters "go"
GoInIdentifier(d) ==
    \E k \in 1..Len(d.blocks) :
        \/ EndsWith(Lower(d.blocks[k].name), w_go)
        \/ \E c \in 1..Len(d.blocks[k].cols) : EndsWith(Lower(d.blocks[k].cols[c].name), w_go)

\* a keyword of the mode occurs in the text, whatever the case
HasKeyword(text, mode) ==
    \E w \in 1..Len(Keywords(mode)) : Contains(Lower(text), Keywords(mode)[w])

Called == applied # NoCall

HasReturned == Called /\ applied.r.exc = "none"

GreedyFns == {"networks", "tables1", "tables2"}

LazyFns == {"scan_columns_sql_file", "scan_tables_sql_file"}

\* C4: the database field of every record of a file is the name of the first USE [name]
\* of the file, and "Unknown" for a file that has no USE statement.
C4_DatabaseOfFirstUse ==
    Called =>
        \A j \in 1..Len(applied.r.hits) :
            applied.r.hits[j].database
              = (IF Len(subject.uses) = 0 THEN Unknown ELSE subject.uses[1])

\* records of a file with two USE statements of different names
C4_Witness ==
    /\ Called
    /\ Len(subject.uses) = 2
    /\ subject.uses[1] # subject.uses[2]
    /\ Len(applied.r.hits) > 0

\* C5: in table-name-only mode (schema-analyzer.py --no-columns, and tables.py) a keyword
\* that occurs only in the column list of a CREATE block, and not in its table identifier,
\* gives no record for that block: the matched term of every record whose table field
\* names a block occurs in the name of that block.
C5_NameOnlyIgnoresColumns ==
    (Called /\ applied.fn \in {"scan_tables_sql_file", "tables1", "tables2"}) =>
        \A k \in 1..Len(subject.blocks) : \A j \in 1..Len(applied.r.hits) :
            Contains(applied.r.hits[j].table, subject.blocks[k].name) =>
                Contains(Lower(subject.blocks[k].name), Lower(applied.r.hits[j].match))

\* C6: for USE [FooDB] followed by the one block CREATE TABLE [dbo].[Providers]
\* (ProviderNPI int, Name varchar(50)) ON [PRIMARY] GO, and for any one well-formed CREATE
\* TABLE block with a dentist keyword in its column text, dentist-mode column scanning
\* (columns.py, schema-analyzer.py) returns exactly one record, with the database of the
\* file, the table name of the block and a matched term that holds a dentist keyword.
C6_OneRecordForOneBlock ==
    ( /\ Called
      /\ applied.fn \in {"columns", "scan_columns_sql_file"}
      /\ applied.mode = "dentists"
      /\ WellFormed(subject)
      /\ Len(subject.blocks) = 1
      /\ HasKeyword(RenderCols(subject.blocks[1], subject.style), "dentists") ) =>
        /\ applied.r.exc = "none"
        /\ Len(applied.r.hits) = 1
        /\ applied.r.hits[1].database
             = (IF Len(subject.uses) = 0 THEN Unknown ELSE subject.uses[1])
        /\ applied.r.hits[1].table = subject.blocks[1].name
        /\ HasKeyword(applied.r.hits[1].match, "dentists")

\* C7: scanning a readable file never raises, whatever its content: text that is not
\* well-formed DDL gives an empty list of records, well-formed text a list of records.
C7_ScanNeverRaises ==
    Called =>
        /\ applied.r.exc = "none"
        /\ ~WellFormed(subject) => applied.r.hits = <<>>

Returns(filepath) == ScanResult(TRUE, applied.r, filepath).recs

\* v is a string: a sequence of characters, and not None
IsString(v) == v # None /\ DOMAIN v = 1..Len(v)

\* C13: every record a scan function places in its result list has exactly the four fields
\* database, table, matched term and file, each of them a string and none of them None,
\* and its database is a name of a USE statement of the file or the literal "Unknown".
C13_RecordsAreFourStrings ==
    Called =>
        \A rec \in Range(Returns(P_NOTES)) \cup Range(Returns(PathJoin(P_ANA, P_NOTES))) :
            /\ DOMAIN rec = {"database", "table", "match", "file"}
            /\ \A k \in DOMAIN rec : IsString(rec[k])
            /\ rec.database \in Range(subject.uses) \cup {Unknown}
            /\ rec.file \in {P_NOTES, PathJoin(P_ANA, P_NOTES)}

\* records of a file without a USE statement, and so with the database "Unknown"
C13_Witness ==
    /\ HasReturned
    /\ subject.uses = <<>>
    /\ Len(Returns(P_NOTES)) > 0
    /\ \A j \in 1..Len(Returns(P_NOTES)) : Returns(P_NOTES)[j].database = Unknown

\* the functions whose matched term is group(0) of the keyword pattern, and return
TermFns == {"networks", "tables1", "tables2", "scan_tables_sql_file"}

\* the mode of the keyword pattern of the call applied
ModeApplied ==
    CASE applied.fn = "networks" -> "networks"
      [] applied.fn = "tables1"  -> "dentists"
      [] OTHER                   -> applied.mode

\* the text of a block the keyword pattern is searched in
SearchedIn(blk) == IF applied.fn = "networks" THEN blk.columns ELSE blk.table

\* a phrase: an alternative of several words
IsPhrase(w) == \E j \in 1..Len(w) : w[j] = " "

\* the alternative w stands in text at position i, whatever the case of the letters; in
\* tables.py and networks.py, between two word boundaries
KeywordAt(text, w, i) ==
    /\ i + Len(w) - 1 <= Len(text)
    /\ Lower(SubSeq(text, i, i + Len(w) - 1)) = w
    /\ applied.fn # "scan_tables_sql_file" =>
           AtBoundary(text, i) /\ AtBoundary(text, i + Len(w))

\* the places <<i, w>> of text where an alternative w of the mode stands
KeywordPlaces(text) ==
    {p \in (1..Len(text)) \X Range(Keywords(ModeApplied)) : KeywordAt(text, p[2], p[1])}

\* the leftmost of the places, and of the alternatives that stand there the longest
LeftmostLongest(places) ==
    CHOOSE p \in places :
        \A q \in places : p[1] < q[1] \/ (p[1] = q[1] /\ Len(p[2]) >= Len(q[2]))

\* C15: in the alternation of every mode each phrase of several words comes before every
\* alternative that is a part of it; so the term reported for a searched text is, of the
\* alternatives that stand at the leftmost place where one matches, the longest: a phrase
\* that stands there is reported whole (or within a longer phrase that starts there), never
\* as one of its single words. The match does not look at the case of the letters, and the
\* term is reported as the text has it. Stated for the functions that report group(0) of
\* the keyword pattern, on the first record of each block.
C15_PhraseBeforeItsWords ==
    /\ \A mode \in Modes : \A i, j \in 1..Len(Keywords(mode)) :
           (IsPhrase(Keywords(mode)[i]) /\ i # j
              /\ Contains(Keywords(mode)[i], Keywords(mode)[j])) => i < j
    /\ (HasReturned /\ applied.fn \in TermFns) =>
           \A k \in 1..Len(applied.r.blocks) :
               LET blk    == applied.r.blocks[k]
                   text   == SearchedIn(blk)
                   places == KeywordPlaces(text)
                   hs     == SelectSeq(applied.r.hits, LAMBDA h : h.table = blk.table)
               IN  IF places = {} THEN hs = <<>>
                   ELSE LET p == LeftmostLongest(places)
                        IN  /\ hs # <<>>
                            /\ hs[1].match = SubSeq(text, p[1], p[1] + Len(p[2]) - 1)
                            /\ Lower(hs[1].match) = p[2]

\* the table name Support Org, searched for the dsos alternatives, of which support is one
\* and stands at the same place: the term is the phrase, in the case of the text
C15_Witness ==
    /\ HasReturned
    /\ applied.fn = "scan_tables_sql_file"
    /\ applied.mode = "dsos"
    /\ \E j \in 1..Len(applied.r.hits) :
           /\ applied.r.hits[j].table = B_Support.name
           /\ applied.r.hits[j].match = B_Support.name
           /\ Lower(applied.r.hits[j].match) = w_support_org

====
